---- MODULE Spec2Model ----
(***************************************************************************)
(* Model of the logit demand comparison pipeline:                          *)
(*   src/12_logit_demand/01_data_prep/rlp_finalize_data.py   (finalize)    *)
(*   src/11_logit_estimation/estimate_demand_compare.py      (compare)     *)
(*                                                                         *)
(* Data frames are sequences of records (one record per row, in row       *)
(* order).  A missing value (NaN) is the integer NA in numeric columns.   *)
(* Counts and shares are kept exact: veh_count is in thousandths of a     *)
(* vehicle, a share is the pair (veh_count, households); floating point   *)
(* rounding is not modelled.                                               *)
(***************************************************************************)
EXTENDS Integers, Sequences, FiniteSets, TLC

VARIABLES
    \* ---- rlp_finalize_data.py
    fpc,              \* position in the script
    df_rlp,           \* the RLP panel being finalized
    df_gas,           \* monthly gas prices
    df_diesel,        \* monthly diesel prices
    df_electricity,   \* yearly electricity prices
    len_rlp,          \* row count of the panel as read
    rlp_final,        \* rlp_with_dollar_per_mile.csv on disk (NoFile until written)
    ferr,             \* the exception that ended the script, or "none"
    \* ---- estimate_demand_compare.py: prepare_experian_data / prepare_rlp_data
    ppc,              \* position in the function
    preparer,         \* "RLP" (prepare_rlp_data) or "Experian" (prepare_experian_data)
    raw_df,           \* the df argument (RLP) or the VIN data read (Experian)
    makes_to_remove,  \* argument; <<>> stands for None and for an empty list
    mkt_def,          \* argument of prepare_rlp_data
    rlp_market,       \* module-level setting
    year_to_drop,     \* argument; NoYear stands for None
    zms_replaced_with,\* argument, thousandths of a vehicle
    hhs_by_year,      \* other_data/hhs_by_year.csv
    hhs_by_year_counties, \* other_data/hhs_by_year_counties.csv
    df,               \* the local df, once filtered and given its identifiers
    mkt_cleaned,      \* mkt_data as clean_market_data returns it
    mkt_data,         \* the table returned
    perr,             \* the exception that ended the call, or "none"
    \* ---- estimate_demand_compare.py: run_logit_model
    rpc,              \* position in the function
    myear,            \* argument, as it shows in the file names
    jx,               \* position of j in specifications (from 1)
    ix,               \* i of the enumerate over the two data sources
    output_specification_logit,
    output_specification_ols,
    output_logit,
    output_ols,
    fits,             \* the designs built and logged so far in this call
    rerr,             \* the exception raised out of the call, or "none"
    files,            \* the csv files written to the two run folders
    \* ---- estimate_demand_compare.py: the script
    spc,              \* position in the script
    platform,         \* platform.platform()[0:5]
    output_exists,    \* output_subfolder is on disk
    data_exists,      \* estimation_data_subfolder is on disk
    description,      \* the description text
    per_year,         \* the literal guarding the per-model-year loop
    excepthook,       \* sys.excepthook
    log,              \* the lines of the run log
    stderr,           \* tracebacks printed by the default hook
    uncaught,         \* the exception that ended the process, or "none"
    years,            \* distinct model_year values of rlp_mkt_data
    queue,            \* model years the loop has still to run
    attempted         \* model years run_logit_model was called for, in order

finVars == <<fpc, df_rlp, df_gas, df_diesel, df_electricity, len_rlp, rlp_final, ferr>>

prepVars == <<ppc, preparer, raw_df, makes_to_remove, mkt_def, rlp_market,
              year_to_drop, zms_replaced_with, hhs_by_year, hhs_by_year_counties, df,
              mkt_cleaned, mkt_data, perr>>

runVars == <<rpc, myear, jx, ix, output_specification_logit, output_specification_ols,
             output_logit, output_ols, fits, rerr, files>>

scriptVars == <<spc, platform, output_exists, data_exists, description, per_year,
                excepthook, log, stderr, uncaught, years, queue, attempted>>

vars == <<finVars, prepVars, runVars, spc, platform, output_exists, data_exists,
          description, per_year, excepthook, log, stderr, uncaught, years, queue,
          attempted>>

(***************************************************************************)
(* Bounds of the model.                                                    *)
(***************************************************************************)
MaxRlpRows == 2       \* rows of the panel read by rlp_finalize_data.py
MaxAuxRows == 2       \* rows of each energy price table
MaxPanelRows == 2     \* rows of the panel given to a prepare function
MaxYears == 2         \* distinct model years of the prepared RLP panel

(***************************************************************************)
(* Generic helpers.                                                        *)
(***************************************************************************)
NA == 0 - 1
NoFile == [written |-> FALSE, rows |-> <<>>]

SeqsUpTo(S, n) == UNION {[1..k -> S] : k \in 0..n}

RECURSIVE Flatten(_)
Flatten(ss) == IF ss = <<>> THEN <<>> ELSE Head(ss) \o Flatten(Tail(ss))

Min(a, b) == IF a < b THEN a ELSE b

\* int -> str: the decimal digits of a non-negative integer
RECURSIVE Digits(_)
Digits(n) == IF n < 10 THEN <<n>> ELSE Append(Digits(n \div 10), n % 10)

\* str -> int
RECURSIVE FromDigits(_)
FromDigits(d) ==
    IF d = <<>> THEN 0 ELSE 10 * FromDigits(SubSeq(d, 1, Len(d) - 1)) + d[Len(d)]

Range(f) == {f[i] : i \in DOMAIN f}

\* pandas DataFrame.merge(..., how = "left"): every left row in order, once
\* per matching right row (in the right table's order), or once with the
\* right columns missing when no right row matches.
\* left_on and right_on list the key columns pairwise; added names the columns
\* the merge brings in, each with the right table's column it comes from.
MergeLeft(left, right, left_on, right_on, added) ==
    Flatten([i \in 1..Len(left) |->
        LET hits == SelectSeq(right, LAMBDA r :
                        \A k \in 1..Len(left_on) : left[i][left_on[k]] = r[right_on[k]])
        IN  IF hits = <<>>
            THEN <<left[i] @@ [c \in DOMAIN added |-> NA]>>
            ELSE [k \in 1..Len(hits) |->
                    left[i] @@ [c \in DOMAIN added |-> hits[k][added[c]]]]])

\* pandas Series.equals over one column of each of two frames: same length,
\* same values position by position, NaN equal to NaN in the same position.
ColumnEquals(t, col1, col2) ==
    \A i \in 1..Len(t) : t[i][col1] = t[i][col2]

(***************************************************************************)
(* rlp_finalize_data.py                                                    *)
(***************************************************************************)
ReportYearMonths == {201801, 201802}
FinFuels == {"gasoline", "electric", "nan"}
GasKeys == {<<2018, 1>>, <<2018, 3>>}
ElecKeys == {2018}

FinRlpRows == [report_year_month : ReportYearMonths, fuel : FinFuels]
GasRows == {[year |-> k[1], month |-> k[2], gas_price_21 |-> 3] : k \in GasKeys}
DieselRows == {[year |-> k[1], month |-> k[2], diesel_price_21 |-> 4] : k \in GasKeys}
ElecRows == {[year |-> y, electricity_price_21 |-> 2] : y \in ElecKeys}

\* report_year_month.astype(str).str[:4].astype(int) and .str[4:].astype(int)
ReportYear(ym) == FromDigits(SubSeq(Digits(ym), 1, Min(4, Len(Digits(ym)))))
ReportMonth(ym) == FromDigits(SubSeq(Digits(ym), 5, Len(Digits(ym))))

CleanRlp(t) ==
    [i \in 1..Len(t) |->
        [fuel |-> t[i].fuel,
         report_year |-> ReportYear(t[i].report_year_month),
         report_month |-> ReportMonth(t[i].report_year_month)]]

FuelHasNoNA(t) == \A i \in 1..Len(t) : t[i].fuel # "nan"

\* The gas columns are named year, month by the first merge and renamed
\* year_x, month_x by the second one (the diesel columns become year_y,
\* month_y); they carry their final names here from the start.
MergeGas(t, gas) ==
    MergeLeft(t, gas, <<"report_year", "report_month">>, <<"year", "month">>,
        [year_x |-> "year", month_x |-> "month", gas_price_21 |-> "gas_price_21"])

MergeDiesel(t, diesel) ==
    MergeLeft(t, diesel, <<"report_year", "report_month">>, <<"year", "month">>,
        [year_y |-> "year", month_y |-> "month",
         diesel_price_21 |-> "diesel_price_21"])

MergeElectricity(t, elec) ==
    MergeLeft(t, elec, <<"report_year">>, <<"year">>,
        [year |-> "year", electricity_price_21 |-> "electricity_price_21"])

MergeEnergy(t, gas, diesel, elec) ==
    MergeElectricity(MergeDiesel(MergeGas(t, gas), diesel), elec)

\* the five assertions that confirm the match
ConfirmMatchNoReport(t) ==
    /\ ColumnEquals(t, "year_x", "year_y")
    /\ ColumnEquals(t, "month_x", "month_y")
    /\ ColumnEquals(t, "year_x", "year")

ConfirmMatch(t) ==
    /\ ColumnEquals(t, "year_x", "year_y")
    /\ ColumnEquals(t, "month_x", "month_y")
    /\ ColumnEquals(t, "year_x", "year")
    /\ ColumnEquals(t, "year_x", "report_year")
    /\ ColumnEquals(t, "month_x", "report_month")

DropMatchColumns(t) ==
    [i \in 1..Len(t) |->
        [fuel |-> t[i].fuel,
         report_year |-> t[i].report_year,
         report_month |-> t[i].report_month,
         gas_price_21 |-> t[i].gas_price_21,
         diesel_price_21 |-> t[i].diesel_price_21,
         electricity_price_21 |-> t[i].electricity_price_21]]

\* dollar_per_mile stays missing for a fuel outside the listed categories,
\* and such rows are dropped; the division by the combined economy is left
\* out (the column is present or missing exactly as the price it is built on).
DollarPerMile(r) ==
    IF r.fuel \in {"gasoline", "hybrid", "flex fuel"} THEN r.gas_price_21
    ELSE IF r.fuel = "diesel" THEN r.diesel_price_21
    ELSE IF r.fuel = "phev" THEN
        IF r.electricity_price_21 = NA \/ r.gas_price_21 = NA THEN NA
        ELSE (r.electricity_price_21 * 563 + r.gas_price_21 * 437) \div 1000
    ELSE NA

AddDollarPerMile(t) ==
    SelectSeq([i \in 1..Len(t) |-> t[i] @@ [dollar_per_mile |-> DollarPerMile(t[i])]],
              LAMBDA r : r.dollar_per_mile # NA)

FinInit ==
    /\ fpc = "clean"
    /\ df_rlp \in SeqsUpTo(FinRlpRows, MaxRlpRows)
    /\ df_gas \in SeqsUpTo(GasRows, MaxAuxRows)
    /\ df_diesel \in SeqsUpTo(DieselRows, MaxAuxRows)
    /\ df_electricity \in SeqsUpTo(ElecRows, MaxAuxRows)
    /\ len_rlp = Len(df_rlp)
    /\ rlp_final = NoFile
    /\ ferr = "none"

FinAbort(e) ==
    /\ fpc' = "aborted"
    /\ ferr' = e
    /\ UNCHANGED <<df_rlp, df_gas, df_diesel, df_electricity, len_rlp, rlp_final>>

\* lines 72-77
FinClean ==
    /\ fpc = "clean"
    /\ IF FuelHasNoNA(df_rlp)
       THEN /\ df_rlp' = CleanRlp(df_rlp)
            /\ fpc' = "merge"
            /\ UNCHANGED <<df_gas, df_diesel, df_electricity, len_rlp, rlp_final, ferr>>
       ELSE FinAbort("AssertionError")
    /\ UNCHANGED <<prepVars, scriptVars, runVars>>

\* lines 87-96
FinMerge ==
    /\ fpc = "merge"
    /\ LET m == MergeEnergy(df_rlp, df_gas, df_diesel, df_electricity)
       IN  IF Len(m) = len_rlp
           THEN /\ df_rlp' = m
                /\ fpc' = "confirm"
                /\ UNCHANGED <<df_gas, df_diesel, df_electricity, len_rlp, rlp_final, ferr>>
           ELSE FinAbort("AssertionError: Length mismatch")
    /\ UNCHANGED <<prepVars, scriptVars, runVars>>

\* lines 99-105
FinConfirm ==
    /\ fpc = "confirm"
    /\ IF ConfirmMatch(df_rlp)
       THEN /\ df_rlp' = DropMatchColumns(df_rlp)
            /\ fpc' = "dollar_per_mile"
            /\ UNCHANGED <<df_gas, df_diesel, df_electricity, len_rlp, rlp_final, ferr>>
       ELSE FinAbort("AssertionError: mismatch")
    /\ UNCHANGED <<prepVars, scriptVars, runVars>>

\* lines 108-130
FinDollarPerMile ==
    /\ fpc = "dollar_per_mile"
    /\ df_rlp' = AddDollarPerMile(df_rlp)
    /\ fpc' = "save"
    /\ UNCHANGED <<df_gas, df_diesel, df_electricity, len_rlp, rlp_final, ferr>>
    /\ UNCHANGED <<prepVars, scriptVars, runVars>>

\* lines 141-143
FinSave ==
    /\ fpc = "save"
    /\ rlp_final' = [written |-> TRUE, rows |-> df_rlp]
    /\ fpc' = "done"
    /\ UNCHANGED <<df_rlp, df_gas, df_diesel, df_electricity, len_rlp, ferr>>
    /\ UNCHANGED <<prepVars, scriptVars, runVars>>

FinNext == FinClean \/ FinMerge \/ FinConfirm \/ FinDollarPerMile \/ FinSave

(***************************************************************************)
(* estimate_demand_compare.py: the two prepare functions                   *)
(***************************************************************************)
Makes == {"Kia", "Smart"}
Counties == {"A", "B"}
MarketDefs == {"model_year", "county_model_year"}
NoYear == 0           \* year_to_drop = None

\* rows of the years that stay, and rows of 2017, one of the excluded years
PanelRows ==
    {[make |-> mk, model |-> "m", model_year |-> 2018, trim |-> "t",
      fuel |-> "electric", range_elec |-> rg, veh_count |-> v,
      county_name |-> c] :
        mk \in Makes, rg \in {100, 1000}, v \in {0, 2000}, c \in Counties}
    \cup
    {[make |-> mk, model |-> "m", model_year |-> 2017, trim |-> "t",
      fuel |-> "electric", range_elec |-> 100, veh_count |-> 2000,
      county_name |-> "A"] : mk \in Makes}

\* the household counts on disk: complete, one county (or the year) absent,
\* or one key listed twice
CensusConfigs == {<<"full", 10>>, <<"full", 3>>, <<"missing", 10>>, <<"duplicate", 10>>}

HhsByYear(shape, h) ==
    LET r == [model_year |-> 2018, tot_HH |-> h]
    IN  [cols |-> {"model_year", "tot_HH"},
         rows |-> CASE shape = "full" -> <<r>>
                    [] shape = "missing" -> <<>>
                    [] shape = "duplicate" -> <<r, r>>]

HhsByYearCounties(shape, h) ==
    LET a == [county_name |-> "A", model_year |-> 2018, tot_HH |-> h]
        b == [county_name |-> "B", model_year |-> 2018, tot_HH |-> h]
    IN  [cols |-> {"county_name", "model_year", "tot_HH"},
         rows |-> CASE shape = "full" -> <<a, b>>
                    [] shape = "missing" -> <<a>>
                    [] shape = "duplicate" -> <<a, a, b>>]

\* str(int), one character per digit
DigitChar(d) ==
    CASE d = 0 -> "0" [] d = 1 -> "1" [] d = 2 -> "2" [] d = 3 -> "3" [] d = 4 -> "4"
      [] d = 5 -> "5" [] d = 6 -> "6" [] d = 7 -> "7" [] d = 8 -> "8" [] d = 9 -> "9"

RECURSIVE JoinChars(_)
JoinChars(ds) == IF ds = <<>> THEN "" ELSE DigitChar(Head(ds)) \o JoinChars(Tail(ds))

AsStr(n) == JoinChars(Digits(n))

\* .astype(str).str[0:3]
AsStr3(n) == JoinChars(SubSeq(Digits(n), 1, Min(3, Len(Digits(n)))))

\* line 136 and lines 137-138
DropYears(t, year) ==
    LET kept == SelectSeq(t, LAMBDA r : r.model_year \notin {2016, 2017, 2023})
    IN  IF year # NoYear THEN SelectSeq(kept, LAMBDA r : r.model_year # year) ELSE kept

\* line 141
ReplaceZmsAdding(t, c) ==
    [i \in 1..Len(t) |->
        [t[i] EXCEPT !.veh_count = IF @ < 1000 THEN @ + c ELSE @]]

ReplaceZms(t, c) ==
    [i \in 1..Len(t) |->
        [t[i] EXCEPT !.veh_count = IF @ = 0 THEN c ELSE @]]

\* line 144
ProductId(r) ==
    r.make \o "_" \o r.model \o "_" \o AsStr(r.model_year) \o "_" \o r.trim
        \o "_" \o r.fuel \o "_" \o AsStr3(r.range_elec)

\* lines 147-150; the model_year market identifier is the integer itself
MarketId(r, def) ==
    IF def = "model_year" THEN r.model_year
    ELSE r.county_name \o "_" \o AsStr(r.model_year)

SetIds(t, def) ==
    [i \in 1..Len(t) |->
        t[i] @@ [product_ids |-> ProductId(t[i]), market_ids |-> MarketId(t[i], def)]]

\* lines 157-160
ReadCensus(def, by_year, by_county) ==
    IF def = "model_year" THEN by_year ELSE by_county

\* lines 97-100
remove_first_make(t, makes) ==
    IF makes = <<>> THEN t
    ELSE SelectSeq(t, LAMBDA r : r.make # Head(makes))

RECURSIVE remove_makes(_, _)
remove_makes(t, makes) ==
    IF makes = <<>> THEN t
    ELSE remove_makes(SelectSeq(t, LAMBDA r : r.make # Head(makes)), Tail(makes))

(***************************************************************************)
(* functions_rlp and Reference.functions_v2 are not among the sources; the *)
(* four steps below follow the specification (4.1, steps 4-6).             *)
(***************************************************************************)
Ok(t) == [ok |-> TRUE, table |-> t]
Err(e) == [ok |-> FALSE, err |-> e]

MarketKey(market) ==
    IF market = "model_year" THEN <<"model_year">> ELSE <<"county_name", "model_year">>

\* left join of the household counts on the market key; the row count must
\* not change and no joined count may be missing
merge_vin_census(t, census, market) ==
    IF ~(Range(MarketKey(market)) \subseteq census.cols) THEN Err("KeyError")
    ELSE LET m == MergeLeft(t, census.rows, MarketKey(market), MarketKey(market),
                    [tot_HH |-> "tot_HH"])
         IN  IF Len(m) # Len(t) THEN Err("AssertionError")
             ELSE IF \E i \in 1..Len(m) : m[i].tot_HH = NA THEN Err("AssertionError")
             ELSE Ok(m)

\* shares = veh_count / tot_HH, kept as a fraction of thousandths
clean_market_data(t, market) ==
    [i \in 1..Len(t) |->
        t[i] @@ [shares |-> [num |-> t[i].veh_count, den |-> 1000 * t[i].tot_HH]]]

\* exact fractions, kept in lowest terms by the sum
RECURSIVE Gcd(_, _)
Gcd(a, b) == IF b = 0 THEN a ELSE Gcd(b, a % b)

Reduced(n, d) == LET g == Gcd(IF n < 0 THEN -n ELSE n, d)
                 IN  [num |-> n \div g, den |-> d \div g]

RECURSIVE FracSum(_)
FracSum(fs) ==
    IF fs = <<>> THEN [num |-> 0, den |-> 1]
    ELSE LET h == Head(fs)
             r == FracSum(Tail(fs))
         IN  Reduced(h.num * r.den + r.num * h.den, h.den * r.den)

OneMinus(f) == [num |-> f.den - f.num, den |-> f.den]
FracEq(f, g) == f.num * g.den = g.num * f.den
FracLess(f, g) == f.num * g.den < g.num * f.den
FracZero == [num |-> 0, den |-> 1]
FracOne == [num |-> 1, den |-> 1]

SharesOfMarket(t, m) ==
    LET rows == SelectSeq(t, LAMBDA r : r.market_ids = m)
    IN  [i \in 1..Len(rows) |-> rows[i].shares]

\* outside share = 1 - sum of the inside shares of the market, which must
\* lie strictly between 0 and 1
calc_outside_good(t) ==
    LET o == [i \in 1..Len(t) |->
                t[i] @@ [outside_share |->
                            OneMinus(FracSum(SharesOfMarket(t, t[i].market_ids)))]]
    IN  IF \A i \in 1..Len(o) : /\ FracLess(FracZero, o[i].outside_share)
                                /\ FracLess(o[i].outside_share, FracOne)
        THEN Ok(o) ELSE Err("AssertionError")

\* rival-count instrument: the other products of the row's market
generate_pyblp_instruments(t) ==
    [i \in 1..Len(t) |->
        t[i] @@ [demand_instruments0 |->
                    Len(SelectSeq(t, LAMBDA r : r.market_ids = t[i].market_ids)) - 1]]

\* prepare_rlp_data, lines 168-181
rlp_remove_then_outside(t, makes) ==
    LET o == calc_outside_good(IF makes # <<>> THEN remove_makes(t, makes) ELSE t)
    IN  IF ~o.ok THEN o ELSE Ok(generate_pyblp_instruments(o.table))

rlp_outside_then_remove(t, makes) ==
    LET o == calc_outside_good(t)
    IN  IF ~o.ok THEN o
        ELSE LET g == generate_pyblp_instruments(o.table)
             IN  Ok(IF makes # <<>> THEN remove_makes(g, makes) ELSE g)

\* prepare_experian_data, lines 120-130
exp_outside_then_remove(t, makes) ==
    LET o == calc_outside_good(t)
    IN  IF ~o.ok THEN o
        ELSE LET g == generate_pyblp_instruments(o.table)
             IN  Ok(IF makes # <<>> THEN remove_makes(g, makes) ELSE g)

PrepInit ==
    /\ ppc = "start"
    /\ raw_df \in SeqsUpTo(PanelRows, MaxPanelRows)
    /\ makes_to_remove \in {<<>>, <<"Lotus", "Smart">>}
    /\ \E c \in CensusConfigs :
          /\ hhs_by_year = HhsByYear(c[1], c[2])
          /\ hhs_by_year_counties = HhsByYearCounties(c[1], c[2])
    /\ \/ /\ preparer = "RLP"
          /\ mkt_def \in MarketDefs
          /\ rlp_market \in MarketDefs
          /\ zms_replaced_with \in {1, 10}
          /\ year_to_drop = NoYear
       \/ /\ preparer = "Experian"
          /\ mkt_def = "model_year"
          /\ rlp_market = "model_year"
          /\ zms_replaced_with = 10
          /\ year_to_drop = NoYear
    /\ df = <<>>
    /\ mkt_cleaned = <<>>
    /\ mkt_data = <<>>
    /\ perr = "none"

prepArgs == <<preparer, raw_df, makes_to_remove, mkt_def, rlp_market, year_to_drop,
              zms_replaced_with, hhs_by_year, hhs_by_year_counties>>

PrepAbort(e) ==
    /\ ppc' = "aborted"
    /\ perr' = e
    /\ UNCHANGED <<prepArgs, df, mkt_cleaned, mkt_data>>

\* prepare_rlp_data, lines 136-154
RlpSetIds ==
    /\ preparer = "RLP"
    /\ ppc = "start"
    /\ df' = SetIds(ReplaceZms(DropYears(raw_df, year_to_drop), zms_replaced_with), mkt_def)
    /\ ppc' = "ids"
    /\ UNCHANGED <<prepArgs, mkt_cleaned, mkt_data, perr>>
    /\ UNCHANGED <<finVars, scriptVars, runVars>>

\* prepare_rlp_data, lines 156-166: the census file follows mkt_def, the
\* merge and the cleaning follow the module-level rlp_market
RlpMergeClean ==
    /\ preparer = "RLP"
    /\ ppc = "ids"
    /\ LET census_data == ReadCensus(mkt_def, hhs_by_year, hhs_by_year_counties)
           m == merge_vin_census(df, census_data, rlp_market)
       IN  IF m.ok
           THEN /\ mkt_cleaned' = clean_market_data(m.table, rlp_market)
                /\ ppc' = "cleaned"
                /\ UNCHANGED <<prepArgs, df, mkt_data, perr>>
           ELSE PrepAbort(m.err)
    /\ UNCHANGED <<finVars, scriptVars, runVars>>

\* prepare_rlp_data, lines 168-181
RlpFinish ==
    /\ preparer = "RLP"
    /\ ppc = "cleaned"
    /\ LET o == rlp_outside_then_remove(mkt_cleaned, makes_to_remove)
       IN  IF o.ok
           THEN /\ mkt_data' = o.table
                /\ ppc' = "returned"
                /\ UNCHANGED <<prepArgs, df, mkt_cleaned, perr>>
           ELSE PrepAbort(o.err)
    /\ UNCHANGED <<finVars, scriptVars, runVars>>

\* prepare_experian_data, lines 106-118: the VIN rows carry their product
\* and market (model year) identifiers; the census is joined by model year
ExpMergeClean ==
    /\ preparer = "Experian"
    /\ ppc = "start"
    /\ LET ids == SetIds(raw_df, "model_year")
           m == merge_vin_census(ids, hhs_by_year, "model_year")
       IN  IF m.ok
           THEN /\ mkt_cleaned' = clean_market_data(m.table, "model_year")
                /\ df' = ids
                /\ ppc' = "cleaned"
                /\ UNCHANGED <<prepArgs, mkt_data, perr>>
           ELSE PrepAbort(m.err)
    /\ UNCHANGED <<finVars, scriptVars, runVars>>

\* prepare_experian_data, lines 120-130
ExpFinish ==
    /\ preparer = "Experian"
    /\ ppc = "cleaned"
    /\ LET o == exp_outside_then_remove(mkt_cleaned, makes_to_remove)
       IN  IF o.ok
           THEN /\ mkt_data' = o.table
                /\ ppc' = "returned"
                /\ UNCHANGED <<prepArgs, df, mkt_cleaned, perr>>
           ELSE PrepAbort(o.err)
    /\ UNCHANGED <<finVars, scriptVars, runVars>>

PrepNext == RlpSetIds \/ RlpMergeClean \/ RlpFinish \/ ExpMergeClean \/ ExpFinish

(***************************************************************************)
(* estimate_demand_compare.py: run_logit_model                             *)
(*                                                                         *)
(* The two fits are black boxes: a fit either raises or returns one named  *)
(* coefficient per term of its design (a categorical column standing for   *)
(* one dummy beyond the dropped one).  The value and se columns hold the   *)
(* estimates and are left out of the result rows.                          *)
(***************************************************************************)
params_master ==
    <<"prices", "dollar_per_mile", "electric", "phev", "hybrid", "diesel",
      "log_hp_weight", "wheelbase", "doors", "range_elec", "make", "drivetype",
      "bodytype">>

specifications_past_covariates == <<1, 2, 6, 7, 8, 9, 10, 11>>

specifications == <<1, 2, 6, 7, 8, 9, 10>>

DataSources == <<"Experian", "RLP">>

Max(a, b) == IF a > b THEN a ELSE b

\* Python slices params_master[0:j] and params_master[-3:]
Prefix(s, j) == SubSeq(s, 1, Min(j, Len(s)))
LastThree(s) == SubSeq(s, Max(1, Len(s) - 2), Len(s))

AsCategorical(param) == "C(" \o param \o ")"

\* lines 256-261
WithCounty(data_source, market) ==
    data_source = "RLP" /\ market = "county_model_year"

ParamsLogitCountyForAll(j, data_source, market) ==
    Prefix(params_master, j)
        \o [k \in 1..Len(LastThree(params_master)) |->
                AsCategorical(LastThree(params_master)[k])]
        \o (IF market = "county_model_year" THEN <<"C(county_name)">> ELSE <<>>)

ParamsLogit(j, data_source, market) ==
    Prefix(params_master, j)
        \o [k \in 1..Len(LastThree(params_master)) |->
                AsCategorical(LastThree(params_master)[k])]
        \o (IF WithCounty(data_source, market) THEN <<"C(county_name)">> ELSE <<>>)

ParamsOls(j, data_source, market) ==
    Prefix(params_master, j) \o LastThree(params_master)
        \o (IF WithCounty(data_source, market) THEN <<"county_name">> ELSE <<>>)

\* ' + '.join(params)
RECURSIVE JoinPlus(_)
JoinPlus(ps) ==
    IF ps = <<>> THEN ""
    ELSE IF Len(ps) = 1 THEN ps[1]
    ELSE ps[1] \o " + " \o JoinPlus(Tail(ps))

\* lines 262-263
ParamsStr(params_logit) == "0 + " \o JoinPlus(params_logit)

\* lines 276-279: the columns handed to pd.get_dummies
DummyColumns(data_source, market) ==
    IF WithCounty(data_source, market)
    THEN <<"make", "drivetype", "bodytype", "county_name">>
    ELSE <<"make", "drivetype", "bodytype">>

\* a data frame of results: width column groups (specification,
\* data_source, param, value, se) side by side; a row holds one cell group
\* per column group
EmptyFrame == [width |-> 0, rows |-> <<>>]
NaNCells == [specification |-> NA, data_source |-> "nan", param |-> "nan"]

\* lines 285-295: pd.DataFrame({'specification': j, 'data_source': ..., 'param': labels})
ResultFrame(j, data_source, labels) ==
    [width |-> 1,
     rows |-> [k \in 1..Len(labels) |->
                 <<[specification |-> j, data_source |-> data_source,
                    param |-> labels[k]]>>]]

PadRow(frame, k) ==
    IF k <= Len(frame.rows) THEN frame.rows[k]
    ELSE [c \in 1..frame.width |-> NaNCells]

\* pd.concat([a, b], axis = 1): the frames side by side, aligned on the row
\* index 0..n-1, the shorter one filled with NaN
ConcatAxis1(a, b) ==
    [width |-> a.width + b.width,
     rows |-> [k \in 1..Max(Len(a.rows), Len(b.rows)) |-> PadRow(a, k) \o PadRow(b, k)]]

\* pd.concat([a, b], axis = 0): the rows of b under the rows of a
ConcatAxis0(a, b) ==
    [width |-> Max(a.width, b.width), rows |-> a.rows \o b.rows]

\* the labels of the coefficients a fit returns
BetaLabels(params_logit) == params_logit
OlsLabels(params_ols) == <<"const">> \o params_ols

RunCallInit(year) ==
    /\ rpc = "save_data"
    /\ myear = year
    /\ jx = 1
    /\ ix = 0
    /\ output_specification_logit = EmptyFrame
    /\ output_specification_ols = EmptyFrame
    /\ output_logit = EmptyFrame
    /\ output_ols = EmptyFrame
    /\ fits = <<>>
    /\ rerr = "none"

RunIdle ==
    /\ rpc = "idle"
    /\ myear = "none"
    /\ jx = 1
    /\ ix = 0
    /\ output_specification_logit = EmptyFrame
    /\ output_specification_ols = EmptyFrame
    /\ output_logit = EmptyFrame
    /\ output_ols = EmptyFrame
    /\ fits = <<>>
    /\ rerr = "none"

RunInit ==
    /\ \E year \in {"all_years"} \cup {AsStr(y) : y \in 2018..(2018 + MaxYears - 1)} :
          RunCallInit(year)
    /\ files = {}
    /\ rlp_market \in MarketDefs

outputs == <<output_specification_logit, output_specification_ols, output_logit, output_ols>>

\* lines 239-241; the model year filter of lines 236-237 only narrows the
\* rows of rlp_df, which the fits take as a whole
RunSaveData ==
    /\ rpc = "save_data"
    /\ files' = files \cup {[file |-> "exp_mkt_data", myear |-> "none"],
                            [file |-> "mkt_data", myear |-> myear]}
    /\ rpc' = "specification"
    /\ UNCHANGED <<myear, jx, ix, outputs, fits, rerr, rlp_market>>
    /\ UNCHANGED <<finVars, prepVars, scriptVars>>

\* lines 243-245
RunStartSpecification ==
    /\ rpc = "specification"
    /\ jx <= Len(specifications)
    /\ output_specification_logit' = EmptyFrame
    /\ output_specification_ols' = EmptyFrame
    /\ ix' = 0
    /\ rpc' = "fit"
    /\ UNCHANGED <<myear, jx, output_logit, output_ols, fits, files, rerr, rlp_market>>
    /\ UNCHANGED <<finVars, prepVars, scriptVars>>

\* lines 246-298, one data source
RunFit ==
    /\ rpc = "fit"
    /\ ix < Len(DataSources)
    /\ LET j == specifications[jx]
           data_source == DataSources[ix + 1]
           params_logit == ParamsLogit(j, data_source, rlp_market)
           params_ols == ParamsOls(j, data_source, rlp_market)
           call == [specification |-> j, data_source |-> data_source,
                    params_logit |-> params_logit, params_ols |-> params_ols,
                    params_str |-> ParamsStr(params_logit),
                    dummy_columns |-> DummyColumns(data_source, rlp_market)]
       IN  /\ fits' = Append(fits, call)
           /\ \/ /\ output_specification_logit' =
                        ConcatAxis1(output_specification_logit,
                                    ResultFrame(j, data_source, BetaLabels(params_logit)))
                 /\ output_specification_ols' =
                        ConcatAxis1(output_specification_ols,
                                    ResultFrame(j, data_source, OlsLabels(params_ols)))
                 /\ ix' = ix + 1
                 /\ UNCHANGED <<rpc, rerr>>
              \/ /\ rpc' = "raised"
                 /\ rerr' = "fit failure"
                 /\ UNCHANGED <<output_specification_logit, output_specification_ols, ix>>
    /\ UNCHANGED <<myear, jx, output_logit, output_ols, files, rlp_market>>
    /\ UNCHANGED <<finVars, prepVars, scriptVars>>

\* lines 300-301 followed by the two to_csv calls inside the loop over the
\* specifications
RunAppendSpecificationWriting ==
    /\ rpc = "fit"
    /\ ix = Len(DataSources)
    /\ output_logit' = ConcatAxis0(output_logit, output_specification_logit)
    /\ output_ols' = ConcatAxis0(output_ols, output_specification_ols)
    /\ jx' = jx + 1
    /\ rpc' = "specification"
    /\ files' = files \cup {[file |-> "comparison_outputs_logit", myear |-> myear],
                            [file |-> "comparison_outputs_ols", myear |-> myear]}
    /\ UNCHANGED <<myear, ix, output_specification_logit, output_specification_ols,
                   fits, rerr, rlp_market>>
    /\ UNCHANGED <<finVars, prepVars, scriptVars>>

\* lines 300-301
RunAppendSpecification ==
    /\ rpc = "fit"
    /\ ix = Len(DataSources)
    /\ output_logit' = ConcatAxis0(output_logit, output_specification_logit)
    /\ output_ols' = ConcatAxis0(output_ols, output_specification_ols)
    /\ jx' = jx + 1
    /\ rpc' = "specification"
    /\ UNCHANGED <<myear, ix, output_specification_logit, output_specification_ols,
                   fits, files, rerr, rlp_market>>
    /\ UNCHANGED <<finVars, prepVars, scriptVars>>

\* lines 303-304
RunWriteResults ==
    /\ rpc = "specification"
    /\ jx > Len(specifications)
    /\ files' = files \cup {[file |-> "comparison_outputs_logit", myear |-> myear],
                            [file |-> "comparison_outputs_ols", myear |-> myear]}
    /\ rpc' = "done"
    /\ UNCHANGED <<myear, jx, ix, outputs, fits, rerr, rlp_market>>
    /\ UNCHANGED <<finVars, prepVars, scriptVars>>

RunNext ==
    \/ RunSaveData
    \/ RunStartSpecification
    \/ RunFit
    \/ RunAppendSpecification
    \/ RunWriteResults

(***************************************************************************)
(* estimate_demand_compare.py: the module-level script                     *)
(*                                                                         *)
(* The settings edited in place between runs (the platform the paths are   *)
(* defined for, the description text, the literal guarding the per-year    *)
(* loop) are inputs.  The two prepare calls are taken as one step that     *)
(* either fails an integrity assertion or yields the distinct model years  *)
(* of the prepared RLP panel.  log holds the run description, the per-year *)
(* error lines and the lines of the exception hook; the two lines logged   *)
(* per fit are the entries of fits.                                        *)
(***************************************************************************)
Years == 2018..(2018 + MaxYears - 1)

RECURSIVE SortedSeq(_)
SortedSeq(S) ==
    IF S = {} THEN <<>>
    ELSE LET lo == CHOOSE x \in S : \A y \in S : x <= y
         IN  <<lo>> \o SortedSeq(S \ {lo})

scriptInputs == <<platform, description, per_year>>

ScriptInit ==
    /\ spc = "mkdir_output"
    /\ platform \in {"macOS", "other"}
    /\ output_exists \in BOOLEAN
    /\ data_exists \in BOOLEAN
    /\ description \in {"", "Parameters"}
    /\ per_year \in BOOLEAN
    /\ excepthook = "default"
    /\ log = <<>>
    /\ stderr = <<>>
    /\ uncaught = "none"
    /\ years = {}
    /\ queue = <<>>
    /\ attempted = <<>>
    /\ files = {}
    /\ rlp_market \in MarketDefs
    /\ RunIdle

ScriptIdle ==
    /\ spc = "idle"
    /\ platform = "macOS"
    /\ output_exists = FALSE
    /\ data_exists = FALSE
    /\ description = "Parameters"
    /\ per_year = FALSE
    /\ excepthook = "default"
    /\ log = <<>>
    /\ stderr = <<>>
    /\ uncaught = "none"
    /\ years = {}
    /\ queue = <<>>
    /\ attempted = <<>>

runLocals == <<rpc, myear, jx, ix, outputs, fits, rerr>>

\* an exception nothing catches: sys.excepthook is called, the process ends
Raise(e) ==
    /\ spc' = "terminated"
    /\ uncaught' = e
    /\ IF excepthook = "my_handler"
       THEN /\ log' = Append(log, [msg |-> "Uncaught exception", about |-> e])
            /\ UNCHANGED stderr
       ELSE /\ stderr' = Append(stderr, e)
            /\ UNCHANGED log

\* lines 42-58
ScriptMkdirOutput ==
    /\ spc = "mkdir_output"
    /\ IF platform # "macOS"
       THEN Raise("NameError") /\ UNCHANGED output_exists
       ELSE IF output_exists
       THEN Raise("FileExistsError") /\ UNCHANGED output_exists
       ELSE /\ output_exists' = TRUE
            /\ spc' = "mkdir_data"
            /\ UNCHANGED <<log, stderr, uncaught>>
    /\ UNCHANGED <<scriptInputs, data_exists, excepthook, years, queue, attempted,
                   runLocals, files, rlp_market>>
    /\ UNCHANGED <<finVars, prepVars>>

\* lines 60-62
ScriptMkdirData ==
    /\ spc = "mkdir_data"
    /\ IF data_exists
       THEN Raise("FileExistsError") /\ UNCHANGED data_exists
       ELSE /\ data_exists' = TRUE
            /\ spc' = "logging"
            /\ UNCHANGED <<log, stderr, uncaught>>
    /\ UNCHANGED <<scriptInputs, output_exists, excepthook, years, queue, attempted,
                   runLocals, files, rlp_market>>
    /\ UNCHANGED <<finVars, prepVars>>

\* lines 66-72
ScriptSetupLogging ==
    /\ spc = "logging"
    /\ excepthook' = "my_handler"
    /\ spc' = "description"
    /\ UNCHANGED <<scriptInputs, output_exists, data_exists, log, stderr, uncaught,
                   years, queue, attempted, runLocals, files, rlp_market>>
    /\ UNCHANGED <<finVars, prepVars>>

\* lines 89-94
ScriptDescription ==
    /\ spc = "description"
    /\ IF description = ""
       THEN Raise("ValueError")
       ELSE /\ log' = Append(log, [msg |-> "description", about |-> description])
            /\ spc' = "prepare"
            /\ UNCHANGED <<stderr, uncaught>>
    /\ UNCHANGED <<scriptInputs, output_exists, data_exists, excepthook, years, queue,
                   attempted, runLocals, files, rlp_market>>
    /\ UNCHANGED <<finVars, prepVars>>

\* lines 184-189
ScriptPrepare ==
    /\ spc = "prepare"
    /\ \/ /\ years' \in SUBSET Years
          /\ spc' = "run_all"
          /\ UNCHANGED <<log, stderr, uncaught>>
       \/ /\ Raise("AssertionError")
          /\ UNCHANGED years
    /\ UNCHANGED <<scriptInputs, output_exists, data_exists, excepthook, queue,
                   attempted, runLocals, files, rlp_market>>
    /\ UNCHANGED <<finVars, prepVars>>

\* entering run_logit_model (lines 225-234)
RunCall(year) ==
    /\ rpc' = "save_data"
    /\ myear' = year
    /\ jx' = 1
    /\ ix' = 0
    /\ output_specification_logit' = EmptyFrame
    /\ output_specification_ols' = EmptyFrame
    /\ output_logit' = EmptyFrame
    /\ output_ols' = EmptyFrame
    /\ fits' = <<>>
    /\ rerr' = "none"

\* line 307, the call
ScriptRunAll ==
    /\ spc = "run_all"
    /\ RunCall("all_years")
    /\ spc' = "in_run_all"
    /\ UNCHANGED <<scriptInputs, output_exists, data_exists, excepthook, log, stderr,
                   uncaught, years, queue, attempted, files, rlp_market>>
    /\ UNCHANGED <<finVars, prepVars>>

\* line 307, the call returns or its exception reaches the top level
ScriptRunAllEnds ==
    /\ spc = "in_run_all"
    /\ \/ /\ rpc = "done"
          /\ spc' = "loop_guard"
          /\ UNCHANGED <<log, stderr, uncaught>>
       \/ /\ rpc = "raised"
          /\ Raise(rerr)
    /\ UNCHANGED <<scriptInputs, output_exists, data_exists, excepthook, years, queue,
                   attempted, runLocals, files, rlp_market>>
    /\ UNCHANGED <<finVars, prepVars>>

\* lines 310-311: the guard and sorted(rlp_mkt_data["model_year"].unique())
ScriptLoopGuard ==
    /\ spc = "loop_guard"
    /\ IF per_year
       THEN queue' = SortedSeq(years) /\ spc' = "year_loop"
       ELSE UNCHANGED queue /\ spc' = "finished"
    /\ UNCHANGED <<scriptInputs, output_exists, data_exists, excepthook, log, stderr,
                   uncaught, years, attempted, runLocals, files, rlp_market>>
    /\ UNCHANGED <<finVars, prepVars>>

\* lines 311-314: the next year, if any, and the call in the try block
ScriptLoopNext ==
    /\ spc = "year_loop"
    /\ IF queue = <<>>
       THEN /\ spc' = "finished"
            /\ UNCHANGED <<attempted, runLocals>>
       ELSE /\ attempted' = Append(attempted, Head(queue))
            /\ RunCall(AsStr(Head(queue)))
            /\ spc' = "in_year_run"
    /\ UNCHANGED <<scriptInputs, output_exists, data_exists, excepthook, log, stderr,
                   uncaught, years, queue, files, rlp_market>>
    /\ UNCHANGED <<finVars, prepVars>>

\* line 314, the call returns
ScriptLoopReturn ==
    /\ spc = "in_year_run"
    /\ rpc = "done"
    /\ queue' = Tail(queue)
    /\ spc' = "year_loop"
    /\ UNCHANGED <<scriptInputs, output_exists, data_exists, excepthook, log, stderr,
                   uncaught, years, attempted, runLocals, files, rlp_market>>
    /\ UNCHANGED <<finVars, prepVars>>

\* the loop without its try block: the exception reaches the top level
ScriptLoopUncaught ==
    /\ spc = "in_year_run"
    /\ rpc = "raised"
    /\ Raise(rerr)
    /\ UNCHANGED <<scriptInputs, output_exists, data_exists, excepthook,
                   years, queue, attempted, runLocals, files, rlp_market>>
    /\ UNCHANGED <<finVars, prepVars>>

\* lines 315-317
ScriptLoopExcept ==
    /\ spc = "in_year_run"
    /\ rpc = "raised"
    /\ log' = Append(log, [msg |-> "Error running model year", about |-> AsStr(Head(queue))])
    /\ queue' = Tail(queue)
    /\ spc' = "year_loop"
    /\ UNCHANGED <<scriptInputs, output_exists, data_exists, excepthook, stderr,
                   uncaught, years, attempted, runLocals, files, rlp_market>>
    /\ UNCHANGED <<finVars, prepVars>>

ScriptNext ==
    \/ ScriptMkdirOutput
    \/ ScriptMkdirData
    \/ ScriptSetupLogging
    \/ ScriptDescription
    \/ ScriptPrepare
    \/ ScriptRunAll
    \/ ScriptRunAllEnds
    \/ ScriptLoopGuard
    \/ ScriptLoopNext
    \/ ScriptLoopReturn
    \/ ScriptLoopExcept

(***************************************************************************)
(* Specifications.  Each runs one program; the other programs' variables   *)
(* stay at rest.                                                           *)
(***************************************************************************)
FinIdle ==
    /\ fpc = "idle"
    /\ df_rlp = <<>>
    /\ df_gas = <<>>
    /\ df_diesel = <<>>
    /\ df_electricity = <<>>
    /\ len_rlp = 0
    /\ rlp_final = NoFile
    /\ ferr = "none"

PrepIdle ==
    /\ ppc = "idle"
    /\ preparer = "none"
    /\ raw_df = <<>>
    /\ makes_to_remove = <<>>
    /\ mkt_def = "model_year"
    /\ year_to_drop = NoYear
    /\ zms_replaced_with = 10
    /\ hhs_by_year = <<>>
    /\ hhs_by_year_counties = <<>>
    /\ df = <<>>
    /\ mkt_cleaned = <<>>
    /\ mkt_data = <<>>
    /\ perr = "none"

RunAtRest == RunIdle /\ files = {}

\* rlp_finalize_data.py
InitFinalize ==
    FinInit /\ PrepIdle /\ ScriptIdle /\ RunAtRest /\ rlp_market = "county_model_year"

SpecFinalize == InitFinalize /\ [][FinNext]_vars

\* one call of prepare_rlp_data or prepare_experian_data
InitPrepare == PrepInit /\ FinIdle /\ ScriptIdle /\ RunAtRest

SpecPrepare == InitPrepare /\ [][PrepNext]_vars

\* both programs that join an auxiliary table
InitJoins == InitFinalize \/ InitPrepare

NextJoins == FinNext \/ PrepNext

SpecJoins == InitJoins /\ [][NextJoins]_vars

\* one call of run_logit_model
InitRun == RunInit /\ FinIdle /\ PrepIdle /\ ScriptIdle

SpecRun == InitRun /\ [][RunNext]_vars

\* estimate_demand_compare.py from its first line to its last
Next == ScriptNext \/ RunNext

Init == ScriptInit /\ FinIdle /\ PrepIdle

Spec == Init /\ [][Next]_vars

\* the interpreter runs the script to its end
FairSpec == Spec /\ WF_vars(Next)

(***************************************************************************)
(* Properties of the prepared tables.                                      *)
(***************************************************************************)

Returned == ppc = "returned"

\* the table as it stood right before the makes were removed
BeforeRemoval == generate_pyblp_instruments(calc_outside_good(mkt_cleaned).table)

\* C3: once a prepare function has returned, its table holds no row of a
\* make listed in makes_to_remove, and it is exactly the table before the
\* removal step without those rows, the other rows kept in their order.
C3_MakesRemoved ==
    Returned =>
        /\ \A i \in 1..Len(mkt_data) : mkt_data[i].make \notin Range(makes_to_remove)
        /\ mkt_data = SelectSeq(BeforeRemoval,
                                LAMBDA r : r.make \notin Range(makes_to_remove))

C3_Witness ==
    /\ Returned
    /\ makes_to_remove # <<>>
    /\ \E i \in 1..Len(mkt_cleaned) : mkt_cleaned[i].make = "Smart"
    /\ Len(mkt_data) = 1
    /\ Len(mkt_cleaned) = 2

InsideShareInUnit(r) ==
    /\ ~FracLess(r.shares, FracZero)
    /\ ~FracLess(FracOne, r.shares)

OutsideShareInside(r) ==
    /\ FracLess(FracZero, r.outside_share)
    /\ FracLess(r.outside_share, FracOne)

\* C2 as stated: in every returned table the outside share of a row equals
\* 1 minus the sum of the inside shares of the rows of its market in that
\* returned table, whatever makes_to_remove is.
C2_OutsideOverReturned ==
    Returned =>
        \A i \in 1..Len(mkt_data) :
            /\ InsideShareInUnit(mkt_data[i])
            /\ OutsideShareInside(mkt_data[i])
            /\ FracEq(mkt_data[i].outside_share,
                      OneMinus(FracSum(SharesOfMarket(mkt_data, mkt_data[i].market_ids))))

\* C2 amended: the outside share of a returned row equals 1 minus the sum
\* of the inside shares of the rows its market had before the makes of
\* makes_to_remove were removed; inside shares lie in [0, 1] and the
\* outside share strictly between 0 and 1.
C2_OutsideOverCleaned ==
    Returned =>
        \A i \in 1..Len(mkt_data) :
            /\ InsideShareInUnit(mkt_data[i])
            /\ OutsideShareInside(mkt_data[i])
            /\ FracEq(mkt_data[i].outside_share,
                      OneMinus(FracSum(SharesOfMarket(mkt_cleaned, mkt_data[i].market_ids))))

C2_Witness ==
    /\ Returned
    /\ preparer = "RLP"
    /\ Len(mkt_data) = 1
    /\ \E i \in 1..Len(mkt_cleaned) :
          /\ mkt_cleaned[i].make = "Smart"
          /\ mkt_cleaned[i].market_ids = mkt_data[1].market_ids

\* C7 as stated: the table prepare_rlp_data returns has no two rows with
\* the same product_ids and the same market_ids.
C7_UniqueProductMarket ==
    (Returned /\ preparer = "RLP") =>
        \A i, k \in 1..Len(mkt_data) :
            (i # k) => ~(/\ mkt_data[i].product_ids = mkt_data[k].product_ids
                         /\ mkt_data[i].market_ids = mkt_data[k].market_ids)

\* C9: on the table that went through the zero-share replacement, applying
\* the replacement again with the same constant changes nothing, and the
\* first application left every row with a non-zero veh_count as it was.
C9_ZmsIdempotent ==
    (preparer = "RLP" /\ ppc = "ids") =>
        LET kept == DropYears(raw_df, year_to_drop)
        IN  /\ ReplaceZms(df, zms_replaced_with) = df
            /\ Len(df) = Len(kept)
            /\ \A i \in 1..Len(kept) :
                  kept[i].veh_count # 0 => df[i].veh_count = kept[i].veh_count

C9_Witness ==
    /\ preparer = "RLP"
    /\ ppc = "ids"
    /\ Len(df) = 2
    /\ df[1].veh_count = zms_replaced_with
    /\ df[2].veh_count = 2000

(***************************************************************************)
(* Joins against auxiliary tables.                                         *)
(***************************************************************************)
Matches(aux, Match(_)) == Cardinality({k \in 1..Len(aux) : Match(aux[k])})

\* every row of t has exactly one partner in each energy price table
EnergyKeysMatchOnce(t) ==
    \A i \in 1..Len(t) :
        /\ Matches(df_gas, LAMBDA r : r.year = t[i].report_year
                                      /\ r.month = t[i].report_month) = 1
        /\ Matches(df_diesel, LAMBDA r : r.year = t[i].report_year
                                         /\ r.month = t[i].report_month) = 1
        /\ Matches(df_electricity, LAMBDA r : r.year = t[i].report_year) = 1

NoMissingPrice(t) ==
    \A i \in 1..Len(t) :
        /\ t[i].gas_price_21 # NA
        /\ t[i].diesel_price_21 # NA
        /\ t[i].electricity_price_21 # NA

\* C5: rlp_finalize_data goes past its assertions only when every panel row
\* found exactly one partner in the gas, diesel and electricity tables; the
\* table it holds from then on, and the file it writes, have no missing
\* price, and a run that aborted wrote no file.  prepare_rlp_data and
\* prepare_experian_data get past the household join only with a household
\* count on every row and the row count unchanged.
C5_JoinsAsserted ==
    /\ fpc = "dollar_per_mile" =>
          /\ EnergyKeysMatchOnce(df_rlp)
          /\ Len(df_rlp) = len_rlp
    /\ fpc \in {"dollar_per_mile", "save", "done"} => NoMissingPrice(df_rlp)
    /\ rlp_final.written => (fpc = "done" /\ NoMissingPrice(rlp_final.rows))
    /\ fpc = "aborted" => (~rlp_final.written /\ ferr # "none")
    /\ ppc \in {"cleaned", "returned"} =>
          /\ Len(mkt_cleaned) = Len(df)
          /\ \A i \in 1..Len(mkt_cleaned) : mkt_cleaned[i].tot_HH # NA
          /\ \A i \in 1..Len(mkt_data) : mkt_data[i].tot_HH # NA
    /\ ppc = "aborted" => (mkt_data = <<>> /\ perr # "none")

\* a panel row without a gas price partner stopped the script
C5_Witness ==
    /\ fpc = "aborted"
    /\ ferr = "AssertionError: mismatch"
    /\ \E i \in 1..Len(df_rlp) : df_rlp[i].gas_price_21 = NA


(***************************************************************************)
(* Properties of run_logit_model.                                          *)
(***************************************************************************)
\* C1 as stated: each of the two result tables written by a call is in long
\* format (one specification and one data_source value per row) and holds
\* one block of rows per (specification, data source) pair of the run,
\* 2 * N blocks for N specifications.
C1_LongFormatBlocks ==
    rpc = "done" =>
        \A t \in {output_logit, output_ols} :
            /\ t.width = 1
            /\ Cardinality({<<r[1].specification, r[1].data_source>> : r \in Range(t.rows)})
                  = 2 * Len(specifications)

FixedEffectTerms == {"C(make)", "C(drivetype)", "C(bodytype)", "C(county_name)"}
FixedEffectColumns == {"make", "drivetype", "bodytype"}

CovariatePart(params) == SelectSeq(params, LAMBDA x : x \notin FixedEffectTerms)
FixedEffectPart(params) == SelectSeq(params, LAMBDA x : x \in FixedEffectTerms)

IsPrefix(a, b) == Len(a) <= Len(b) /\ SubSeq(b, 1, Len(a)) = a
IsStrictPrefix(a, b) == Len(a) < Len(b) /\ IsPrefix(a, b)

ConsecutiveSpecifications(j_prev, j) ==
    \E k \in 1..(Len(specifications) - 1) :
        specifications[k] = j_prev /\ specifications[k + 1] = j

\* C8: for two designs built in one call for the same data source and for
\* consecutive entries j_prev, j of the specification list, each parameter
\* list is its covariates followed by its fixed-effect block, the covariates
\* of j_prev are a strict prefix of those of j, which lead params_master,
\* the fixed-effect blocks are the same and start with make, drivetype,
\* bodytype, and no fixed-effect column is among the covariates.
C8_NestedSpecifications ==
    \A a, b \in 1..Len(fits) :
        (/\ fits[a].data_source = fits[b].data_source
         /\ ConsecutiveSpecifications(fits[a].specification, fits[b].specification))
        => LET pa == fits[a].params_logit
               pb == fits[b].params_logit
           IN  /\ pa = CovariatePart(pa) \o FixedEffectPart(pa)
               /\ pb = CovariatePart(pb) \o FixedEffectPart(pb)
               /\ IsStrictPrefix(CovariatePart(pa), CovariatePart(pb))
               /\ IsPrefix(CovariatePart(pb), params_master)
               /\ FixedEffectPart(pa) = FixedEffectPart(pb)
               /\ IsPrefix(<<"C(make)", "C(drivetype)", "C(bodytype)">>, FixedEffectPart(pb))
               /\ Range(CovariatePart(pa)) \cap FixedEffectColumns = {}
               /\ Range(CovariatePart(pb)) \cap FixedEffectColumns = {}

C8_Witness ==
    /\ rpc = "done"
    /\ Len(fits) = 2 * Len(specifications)
    /\ fits[Len(fits)].specification = 10
    /\ fits[Len(fits) - 2].specification = 9

RECURSIVE CovariateText(_)
CovariateText(j) ==
    IF j = 0 THEN "" ELSE CovariateText(j - 1) \o params_master[j] \o " + "

ExpectedFormula(j, county) ==
    "0 + " \o CovariateText(j) \o "C(make) + C(drivetype) + C(bodytype)"
        \o (IF county THEN " + C(county_name)" ELSE "")

ExpectedOlsColumns(j, county) ==
    Prefix(params_master, j) \o <<"make", "drivetype", "bodytype">>
        \o (IF county THEN <<"county_name">> ELSE <<>>)

DesignAsExpected(f, county) ==
    /\ f.params_str = ExpectedFormula(f.specification, county)
    /\ f.params_ols = ExpectedOlsColumns(f.specification, county)
    /\ [k \in 1..Len(f.dummy_columns) |-> AsCategorical(f.dummy_columns[k])]
          = FixedEffectPart(f.params_logit)
    /\ CovariatePart(f.params_logit)
          = SelectSeq(f.params_ols, LAMBDA x : x \notin Range(f.dummy_columns))

\* C10 as stated: every design, of either data source, has the county fixed
\* effect whenever rlp_market is county_model_year.
C10_CountyForEverySource ==
    \A k \in 1..Len(fits) :
        DesignAsExpected(fits[k], rlp_market = "county_model_year")

\* C10 amended: the formula is "0 + ", the first j entries of params_master
\* (price first), then C(make), C(drivetype), C(bodytype), and C(county_name)
\* only for the RLP data source when rlp_market is county_model_year; the
\* OLS design has the same covariates and the same categorical columns.
C10_CountyForRlpOnly ==
    \A k \in 1..Len(fits) :
        DesignAsExpected(fits[k], fits[k].data_source = "RLP"
                                    /\ rlp_market = "county_model_year")

C10_Witness ==
    /\ rlp_market = "county_model_year"
    /\ Len(fits) >= 2
    /\ fits[1].data_source = "Experian"
    /\ fits[1].params_str = "0 + prices + C(make) + C(drivetype) + C(bodytype)"
    /\ fits[2].data_source = "RLP"
    /\ fits[2].params_str
          = "0 + prices + C(make) + C(drivetype) + C(bodytype) + C(county_name)"

(***************************************************************************)
(* Properties of the script.                                               *)
(***************************************************************************)
\* C6 as stated: a run ended by a configuration failure or a data-integrity
\* failure has that failure logged by the exception hook as its last line.
C6_FailuresLoggedByHook ==
    (spc = "terminated" /\ uncaught \in {"FileExistsError", "ValueError", "AssertionError"})
        => /\ log # <<>>
           /\ log[Len(log)] = [msg |-> "Uncaught exception", about |-> uncaught]

InYearLoop == spc \in {"year_loop", "in_year_run"}

\* C4: in the per-model-year loop the years run_logit_model was called for
\* are always a prefix of the ascending distinct model years; a failure of
\* one year's call is followed by the error line naming that year and by
\* the loop going on, never by the end of the process; and the loop ends
\* with every year attempted.
C4_EveryYearAttempted ==
    /\ [](InYearLoop => IsPrefix(attempted, SortedSeq(years)))
    /\ [][InYearLoop => spc' # "terminated"]_vars
    /\ [][(spc = "in_year_run" /\ rpc = "raised") =>
            /\ log' = Append(log, [msg |-> "Error running model year",
                                   about |-> AsStr(attempted[Len(attempted)])])
            /\ spc' = "year_loop"
            /\ attempted' = attempted]_vars
    /\ InYearLoop ~> (spc = "finished" /\ attempted = SortedSeq(years))

C4_Witness ==
    /\ spc = "finished"
    /\ per_year
    /\ attempted = <<2018, 2019>>
    /\ \E k \in 1..Len(log) :
          log[k] = [msg |-> "Error running model year", about |-> "2018"]
    /\ [file |-> "comparison_outputs_logit", myear |-> "2019"] \in files

(***************************************************************************)
(* The files of one call of run_logit_model.                               *)
(***************************************************************************)
MarketDataFiles(year) ==
    {[file |-> "exp_mkt_data", myear |-> "none"], [file |-> "mkt_data", myear |-> year]}

ResultFiles(year) ==
    {[file |-> "comparison_outputs_logit", myear |-> year],
     [file |-> "comparison_outputs_ols", myear |-> year]}

\* every (specification, data source) pair has been fitted, in the loops' order
EveryFitCompleted ==
    /\ rerr = "none"
    /\ Len(fits) = Len(specifications) * Len(DataSources)
    /\ \A a \in 1..Len(specifications) : \A b \in 1..Len(DataSources) :
          LET call == fits[(a - 1) * Len(DataSources) + b]
          IN  call.specification = specifications[a] /\ call.data_source = DataSources[b]

InCall == rpc # "idle"

\* C11: within a call of run_logit_model both market tables are on disk
\* before the first fit starts; the two result tables of the call are written
\* together, by the one step that ends the call, after every (specification,
\* data source) fit has completed; a call in which a fit raised has written
\* neither result file and its market-data files remain; no file is ever
\* removed.
C11_FilesOfOneCall ==
    /\ [](InCall =>
            /\ fits # <<>> => MarketDataFiles(myear) \subseteq files
            /\ ResultFiles(myear) \cap files # {} =>
                    /\ rpc = "done"
                    /\ EveryFitCompleted
            /\ rpc = "done" => ResultFiles(myear) \subseteq files
            /\ rpc = "raised" =>
                    /\ ResultFiles(myear) \cap files = {}
                    /\ MarketDataFiles(myear) \subseteq files)
    /\ [][/\ files \subseteq files'
          /\ files' # files =>
                \/ /\ rpc' = "specification"
                   /\ fits' = <<>>
                   /\ files' = files \cup MarketDataFiles(myear')
                \/ /\ rpc # "done"
                   /\ rpc' = "done"
                   /\ files' = files \cup ResultFiles(myear')]_vars

\* one year's call has raised in a fit and a later year's call has ended
C11_Witness ==
    /\ rpc = "done"
    /\ myear = "2019"
    /\ EveryFitCompleted
    /\ ResultFiles("2019") \subseteq files
    /\ ResultFiles("2018") \cap files = {}
    /\ MarketDataFiles("2018") \subseteq files
    /\ ResultFiles("all_years") \subseteq files

(***************************************************************************)
(* The market definition of one call of prepare_rlp_data.                  *)
(***************************************************************************)
PastTheMerge == ppc \in {"cleaned", "returned", "aborted"}

\* C12: in a call of prepare_rlp_data the census merge and the cleaning use
\* the market definition mkt_def, the one the market identifiers and the
\* household-count table were chosen by: past the merge, the call has the
\* cleaned table (or the failure) that merging and cleaning by mkt_def give,
\* whatever the module-level rlp_market is.
C12_OneMarketDefinition ==
    (preparer = "RLP" /\ PastTheMerge) =>
        LET census_data == ReadCensus(mkt_def, hhs_by_year, hhs_by_year_counties)
            m == merge_vin_census(df, census_data, mkt_def)
        IN  IF m.ok
            THEN mkt_cleaned = clean_market_data(m.table, mkt_def)
            ELSE ppc = "aborted" /\ perr = m.err

====
